---------------------------- MODULE Spec2Model ----------------------------
(***************************************************************************)
(* The DMN Modeler (lib/Modeler.js): the identifier registry kept on the    *)
(* moddle instance and the table/diagram synchronisation run on a view     *)
(* switch.  The three handlers registered by the constructor are modelled  *)
(* as operators over a "world" record                                      *)
(*     [ids, decisions, canvas, fired]                                     *)
(* and each delivered event is one step that applies the whole handler.    *)
(***************************************************************************)
EXTENDS Naturals, Sequences, FiniteSets

\* ------------------------------------------------------------------ bounds

\* number of events the host delivers in one run
MaxEvents == 3

\* ------------------------------------------------------------ the universe

\* identifiers that may occur in a document
Identifiers == {"a", "b"}

\* elements of a parsed document (owners of identifiers)
Elements == {"e1", "e2"}

\* the Decision entities view-switch events carry
Decisions == {"d1", "d2"}

\* JavaScript's undefined, for string-valued slots
NULL == "undefined"

\* (x, y, width, height) a shape factory may give a new shape
FactoryGeometry ==
    { [x |-> 0,  y |-> 0,  width |-> 180, height |-> 80],
      [x |-> 50, y |-> 70, width |-> 100, height |-> 50] }

\* the default position of a materialized Decision
DefaultX == 200
DefaultY == 200

\* ------------------------------------------------------------- references

\* a reference to the extension-elements container of decision d
ExtRef(d) == [type |-> "dmn:ExtensionElements", of |-> d]

\* a reference to a bounds record held by the container of decision d
BoundsRef(d) == [type |-> "biodi:Bounds", of |-> d]

\* an unset $parent of a bounds record
NoRef == [type |-> NULL, of |-> NULL]

\* decision.extensionElements when the Decision owns no container
NoExtensionElements == [defined |-> FALSE, parent |-> NULL, values |-> << >>]

\* a bounds record as the import leaves it in a document that has DI
ImportedBounds(d) ==
    [x |-> 10, y |-> 20, width |-> 180, height |-> 80, parent |-> ExtRef(d)]

\* the states a Decision handed to the modeler may be in
DecisionStates(d) ==
    { [extensionElements |-> NoExtensionElements],
      [extensionElements |-> [defined |-> TRUE, parent |-> d, values |-> << >>]],
      [extensionElements |->
          [defined |-> TRUE, parent |-> d, values |-> << ImportedBounds(d) >>]] }

\* the element indexes a parse context may carry
ElementIndexes == UNION { [S -> Elements] : S \in SUBSET Identifiers }

\* ------------------------------------------------- the identifier registry

\* the registry with nothing claimed
EmptySeed == [i \in {} |-> NULL]

\* ids.clear(): forget every claimed identifier
IdsClear(seed) == EmptySeed

\* ids.claim(id, element): register id as used by element
IdsClaim(seed, id, element) ==
    [i \in (DOMAIN seed) \cup {id} |-> IF i = id THEN element ELSE seed[i]]

\* the for-in loop of _collectIds over the keys still to visit
RECURSIVE ClaimEach(_, _, _)
ClaimEach(seed, elementsById, keys) ==
    IF keys = {} THEN seed
    ELSE LET id == CHOOSE k \in keys : TRUE
         IN  ClaimEach(IdsClaim(seed, id, elementsById[id]),
                       elementsById, keys \ {id})

\* a call made on the registry: ids.clear(), or ids.claim(id, ...) with
\* whether id was claimed when the call was made
ClearCall == [op |-> "clear", id |-> NULL, claimed |-> FALSE]
ClaimCall(seed, id) == [op |-> "claim", id |-> id, claimed |-> id \in DOMAIN seed]

\* the for-in loop of _collectIds, on a run r = [seed, calls, thrown]
RECURSIVE ClaimEachLogged(_, _, _)
ClaimEachLogged(r, elementsById, keys) ==
    IF keys = {} THEN r
    ELSE LET id == CHOOSE k \in keys : TRUE
         IN  ClaimEachLogged(
                 [r EXCEPT !.seed = IdsClaim(r.seed, id, elementsById[id]),
                           !.calls = Append(@, ClaimCall(r.seed, id))],
                 elementsById, keys \ {id})

\* mutant: the pass claims without removing the previous import's references
collectIdsRunNoClear(seed, context) ==
    LET kept == [seed |-> seed, calls |-> << >>, thrown |-> NULL]
    IN  IF ~ context.defined THEN [kept EXCEPT !.thrown = "TypeError"]
        ELSE IF ~ context.indexed THEN kept
        ELSE ClaimEachLogged(kept, context.elementsById, DOMAIN context.elementsById)

\* Modeler.prototype._collectIds as a run: the registry it leaves, the calls
\* it makes on the registry and the exception it ends with
collectIdsRun(seed, context) ==
    LET \* ids.clear()
        cleared == [seed |-> IdsClear(seed), calls |-> << ClearCall >>, thrown |-> NULL]
    IN  \* context.elementsById of an undefined context
        IF ~ context.defined THEN [cleared EXCEPT !.thrown = "TypeError"]
        \* for (id in undefined) visits nothing
        ELSE IF ~ context.indexed THEN cleared
        ELSE ClaimEachLogged(cleared, context.elementsById, DOMAIN context.elementsById)

\* mutant: the references of the previous import are not removed
collectIdsNoClear(seed, context) ==
    ClaimEach(seed, context.elementsById, DOMAIN context.elementsById)

\* mutant: the registry is cleared after the loop instead of before it
collectIdsClearLast(seed, context) ==
    IdsClear(ClaimEach(seed, context.elementsById, DOMAIN context.elementsById))

\* Modeler.prototype._collectIds
collectIds(seed, context) == collectIdsRun(seed, context).seed

\* --------------------------------------------------------- collaborators

\* elementFactory.createShape({ type, businessObject }): a shape for the
\* business object, of the geometry the factory chooses; a business object
\* without an extension-elements container is given an empty one
createShape(decisions, attrs, geometry) ==
    LET d == attrs.businessObject
    IN  [ shape |-> [ id |-> d, type |-> attrs.type, businessObject |-> d,
                      x |-> geometry.x, y |-> geometry.y,
                      width |-> geometry.width, height |-> geometry.height ],
          decisions |->
              IF decisions[d].extensionElements.defined THEN decisions
              ELSE [decisions EXCEPT ![d].extensionElements =
                        [defined |-> TRUE, parent |-> NULL, values |-> << >>]] ]

\* drdFactory.createDiBounds(bounds): a bounds record, not yet parented
createDiBounds(bounds) ==
    [ x |-> bounds.x, y |-> bounds.y, width |-> bounds.width,
      height |-> bounds.height, parent |-> NoRef ]

\* canvas.addShape(shape)
addShape(canvas, shape) == Append(canvas, shape)

\* eventBus.fire(name, payload)
fire(fired, name, payload) ==
    Append(fired, [name |-> name, element |-> payload.element, di |-> payload.di])

\* ------------------------------------------------------ createDecisionDi

RECURSIVE ViewSwitchHandler(_, _, _)

\* the listeners of the event bus that run when `hook` is emitted while
\* decision is materialized: the one registered in w.listener, if it listens
\* to hook, emits a view.switch from the table for the same Decision
Listeners(w, hook, decision, geometry) ==
    IF w.listener = hook
    THEN ViewSwitchHandler([w EXCEPT !.listener = "none"],
                           [kind |-> "view.switch", decision |-> decision,
                            fromTable |-> TRUE, geometry |-> geometry],
                           geometry)
    ELSE w

\* world w after statement `step` of createDecisionDi, logged with what the
\* Decision, the bounds record, the canvas and the event bus hold then
Step(w, step, decision, boundsParent) ==
    [w EXCEPT !.steps = Append(@,
        [ step |-> step,
          ext |-> w.decisions[decision].extensionElements,
          boundsParent |-> boundsParent,
          shapes |-> Len(w.canvas),
          fired |-> Len(w.fired) ])]

\* mutant: the shape is never handed to the canvas
createDecisionDiNoAddShape(w, decision, geometry) ==
    LET made == createShape(w.decisions,
                    [type |-> "dmn:Decision", businessObject |-> decision], geometry)
        decisionShape == [made.shape EXCEPT !.x = DefaultX, !.y = DefaultY]
        bounds == createDiBounds([x |-> DefaultX, y |-> DefaultY,
                                  width |-> decisionShape.width,
                                  height |-> decisionShape.height])
        parented == [made.decisions EXCEPT ![decision].extensionElements.parent = decision]
        bounds2 == [bounds EXCEPT !.parent = ExtRef(decision)]
        pushed == [parented EXCEPT ![decision].extensionElements.values =
                       Append(@, bounds2)]
    IN  [ w EXCEPT !.decisions = pushed,
                   !.fired = fire(w.fired, "drdElement.added",
                                  [element |-> decisionShape, di |-> ExtRef(decision)]) ]

\* mutant: the shape and its bounds stay where the factory put the shape
createDecisionDiFactoryPosition(w, decision, geometry) ==
    LET made == createShape(w.decisions,
                    [type |-> "dmn:Decision", businessObject |-> decision], geometry)
        decisionShape == made.shape
        bounds == createDiBounds([x |-> decisionShape.x, y |-> decisionShape.y,
                                  width |-> decisionShape.width,
                                  height |-> decisionShape.height])
        parented == [made.decisions EXCEPT ![decision].extensionElements.parent = decision]
        bounds2 == [bounds EXCEPT !.parent = ExtRef(decision)]
        pushed == [parented EXCEPT ![decision].extensionElements.values =
                       Append(@, bounds2)]
    IN  [ w EXCEPT !.decisions = pushed,
                   !.canvas = addShape(w.canvas, decisionShape),
                   !.fired = fire(w.fired, "drdElement.added",
                                  [element |-> decisionShape, di |-> ExtRef(decision)]) ]

\* mutant: the notification carries the shape as the factory returned it
createDecisionDiStaleElement(w, decision, geometry) ==
    LET made == createShape(w.decisions,
                    [type |-> "dmn:Decision", businessObject |-> decision], geometry)
        decisionShape == [made.shape EXCEPT !.x = DefaultX, !.y = DefaultY]
        bounds == createDiBounds([x |-> DefaultX, y |-> DefaultY,
                                  width |-> decisionShape.width,
                                  height |-> decisionShape.height])
        parented == [made.decisions EXCEPT ![decision].extensionElements.parent = decision]
        bounds2 == [bounds EXCEPT !.parent = ExtRef(decision)]
        pushed == [parented EXCEPT ![decision].extensionElements.values =
                       Append(@, bounds2)]
    IN  [ w EXCEPT !.decisions = pushed,
                   !.canvas = addShape(w.canvas, decisionShape),
                   !.fired = fire(w.fired, "drdElement.added",
                                  [element |-> made.shape, di |-> ExtRef(decision)]) ]

\* mutant: the container is parented before the shape is created
createDecisionDiParentsFirst(w, decision, geometry) ==
    IF ~ w.decisions[decision].extensionElements.defined
    THEN [w EXCEPT !.thrown = "TypeError"]
    ELSE
    LET w1 == Step([w EXCEPT !.decisions[decision].extensionElements.parent = decision],
                   "extensionElements.$parent", decision, NoRef)
        made == createShape(w1.decisions,
                    [type |-> "dmn:Decision", businessObject |-> decision], geometry)
        decisionShape == [made.shape EXCEPT !.x = DefaultX, !.y = DefaultY]
        bounds == createDiBounds([x |-> DefaultX, y |-> DefaultY,
                                  width |-> decisionShape.width,
                                  height |-> decisionShape.height])
        bounds2 == [bounds EXCEPT !.parent = ExtRef(decision)]
        w2 == Step(w1, "bounds.$parent", decision, bounds2.parent)
        w3 == Step([w2 EXCEPT !.decisions[decision].extensionElements.values =
                                  Append(@, bounds2)],
                   "values.push", decision, bounds2.parent)
        w4 == Listeners(Step([w3 EXCEPT !.canvas = addShape(w3.canvas, decisionShape)],
                             "canvas.addShape", decision, bounds2.parent),
                        "shape.added", decision, geometry)
    IN  IF w4.thrown # NULL THEN w4
        ELSE Listeners(Step([w4 EXCEPT !.fired = fire(w4.fired, "drdElement.added",
                                  [element |-> decisionShape, di |-> ExtRef(decision)])],
                            "eventBus.fire", decision, bounds2.parent),
                       "drdElement.added", decision, geometry)

\* mutant: the shape is handed to the canvas before the DI is built
createDecisionDiAddsShapeFirst(w, decision, geometry) ==
    LET made == createShape(w.decisions,
                    [type |-> "dmn:Decision", businessObject |-> decision], geometry)
        decisionShape == [made.shape EXCEPT !.x = DefaultX, !.y = DefaultY]
        bounds == createDiBounds([x |-> DefaultX, y |-> DefaultY,
                                  width |-> decisionShape.width,
                                  height |-> decisionShape.height])
        w0 == [w EXCEPT !.decisions = made.decisions]
    IN  IF ~ w0.decisions[decision].extensionElements.defined
        THEN [w0 EXCEPT !.thrown = "TypeError"]
        ELSE
        LET w1 == Listeners(Step([w0 EXCEPT !.canvas = addShape(w0.canvas, decisionShape)],
                                 "canvas.addShape", decision, bounds.parent),
                            "shape.added", decision, geometry)
            w2 == Step([w1 EXCEPT !.decisions[decision].extensionElements.parent = decision],
                       "extensionElements.$parent", decision, bounds.parent)
            bounds2 == [bounds EXCEPT !.parent = ExtRef(decision)]
            w3 == Step(w2, "bounds.$parent", decision, bounds2.parent)
            w4 == Step([w3 EXCEPT !.decisions[decision].extensionElements.values =
                                      Append(@, bounds2)],
                       "values.push", decision, bounds2.parent)
        IN  IF w1.thrown # NULL THEN w1
            ELSE Listeners(Step([w4 EXCEPT !.fired = fire(w4.fired, "drdElement.added",
                                      [element |-> decisionShape, di |-> ExtRef(decision)])],
                                "eventBus.fire", decision, bounds2.parent),
                           "drdElement.added", decision, geometry)

\* mutant: the bounds record is never appended to the container
createDecisionDiNoPush(w, decision, geometry) ==
    LET made == createShape(w.decisions,
                    [type |-> "dmn:Decision", businessObject |-> decision], geometry)
        decisionShape == [made.shape EXCEPT !.x = DefaultX, !.y = DefaultY]
        bounds == createDiBounds([x |-> DefaultX, y |-> DefaultY,
                                  width |-> decisionShape.width,
                                  height |-> decisionShape.height])
        w0 == [w EXCEPT !.decisions = made.decisions]
    IN  IF ~ w0.decisions[decision].extensionElements.defined
        THEN [w0 EXCEPT !.thrown = "TypeError"]
        ELSE
        LET w1 == Step([w0 EXCEPT !.decisions[decision].extensionElements.parent = decision],
                       "extensionElements.$parent", decision, bounds.parent)
            bounds2 == [bounds EXCEPT !.parent = ExtRef(decision)]
            w2 == Step(w1, "bounds.$parent", decision, bounds2.parent)
            w4 == Listeners(Step([w2 EXCEPT !.canvas = addShape(w2.canvas, decisionShape)],
                                 "canvas.addShape", decision, bounds2.parent),
                            "shape.added", decision, geometry)
        IN  IF w4.thrown # NULL THEN w4
            ELSE Listeners(Step([w4 EXCEPT !.fired = fire(w4.fired, "drdElement.added",
                                      [element |-> decisionShape, di |-> ExtRef(decision)])],
                                "eventBus.fire", decision, bounds2.parent),
                           "drdElement.added", decision, geometry)

\* Modeler.prototype.createDecisionDi
createDecisionDi(w, decision, geometry) ==
    LET \* var decisionShape = elementFactory.createShape({ ... })
        made == createShape(w.decisions,
                    [type |-> "dmn:Decision", businessObject |-> decision], geometry)
        \* decisionShape = assign(decisionShape, { x: 200, y: 200 })
        decisionShape == [made.shape EXCEPT !.x = DefaultX, !.y = DefaultY]
        \* bounds = drdFactory.createDiBounds({ ... })
        bounds == createDiBounds([x |-> DefaultX, y |-> DefaultY,
                                  width |-> decisionShape.width,
                                  height |-> decisionShape.height])
        w0 == [w EXCEPT !.decisions = made.decisions]
    IN  \* decision.extensionElements.$parent = ... of an undefined container
        IF ~ w0.decisions[decision].extensionElements.defined
        THEN [w0 EXCEPT !.thrown = "TypeError"]
        ELSE
        LET \* decision.extensionElements.$parent = decision
            w1 == Step([w0 EXCEPT !.decisions[decision].extensionElements.parent = decision],
                       "extensionElements.$parent", decision, bounds.parent)
            \* bounds.$parent = decision.extensionElements
            bounds2 == [bounds EXCEPT !.parent = ExtRef(decision)]
            w2 == Step(w1, "bounds.$parent", decision, bounds2.parent)
            \* decision.extensionElements.values.push(bounds)
            w3 == Step([w2 EXCEPT !.decisions[decision].extensionElements.values =
                                      Append(@, bounds2)],
                       "values.push", decision, bounds2.parent)
            \* canvas.addShape(decisionShape)
            w4 == Listeners(Step([w3 EXCEPT !.canvas = addShape(w3.canvas, decisionShape)],
                                 "canvas.addShape", decision, bounds2.parent),
                            "shape.added", decision, geometry)
        IN  IF w4.thrown # NULL THEN w4
            ELSE \* eventBus.fire('drdElement.added', { element, di })
                 Listeners(Step([w4 EXCEPT !.fired = fire(w4.fired, "drdElement.added",
                                      [element |-> decisionShape, di |-> ExtRef(decision)])],
                                "eventBus.fire", decision, bounds2.parent),
                           "drdElement.added", decision, geometry)

\* ------------------------------------------------------------ the handlers

\* mutant: identifiers are collected after a failed parse too
ParseCompleteHandlerIgnoresError(w, event) ==
    [w EXCEPT !.ids = collectIds(w.ids, event.context)]

\* this.on('import.parse.complete', ...)
ParseCompleteHandler(w, event) ==
    IF event.error = NULL
    THEN \* this._collectIds(event.definitions, event.context)
         IF event.definitions = NULL
         THEN \* definitions.$model of an undefined definitions
              [w EXCEPT !.thrown = "TypeError"]
         ELSE [w EXCEPT !.ids = collectIds(w.ids, event.context),
                        !.calls = collectIdsRun(w.ids, event.context).calls,
                        !.thrown = collectIdsRun(w.ids, event.context).thrown]
    ELSE w

\* mutant: the registry survives the destruction of the table
TableDestroyHandlerKeepsIds(w) == w

\* mutant: the destruction of the table also empties the canvas
TableDestroyHandlerClearsCanvas(w) ==
    [w EXCEPT !.ids = IdsClear(w.ids), !.canvas = << >>]

\* this.on('table.destroy', ...)
TableDestroyHandler(w) == [w EXCEPT !.ids = IdsClear(w.ids)]

\* mutant: the guard does not look at decision.extensionElements
ViewSwitchHandlerNoDiGuard(w, context, geometry) ==
    IF context.fromTable
    THEN createDecisionDi(w, context.decision, geometry)
    ELSE w

\* mutant: the guard does not look at context.fromTable
ViewSwitchHandlerNoFromTableGuard(w, context, geometry) ==
    IF ~ w.decisions[context.decision].extensionElements.defined
    THEN createDecisionDi(w, context.decision, geometry)
    ELSE w

\* mutant: the guard reads decision.extensionElements before fromTable
ViewSwitchHandlerReadsDecisionFirst(w, context, geometry) ==
    IF context.decision = NULL
    THEN [w EXCEPT !.thrown = "TypeError"]
    ELSE IF ~ w.decisions[context.decision].extensionElements.defined
              /\ context.fromTable
         THEN createDecisionDi(w, context.decision, geometry)
         ELSE w

\* this.on('view.switch', ...)
ViewSwitchHandler(w, context, geometry) ==
    IF context.fromTable
    THEN IF context.decision = NULL
         THEN \* decision.extensionElements of an undefined decision
              [w EXCEPT !.thrown = "TypeError"]
         ELSE IF ~ w.decisions[context.decision].extensionElements.defined
              THEN createDecisionDi(w, context.decision, geometry)
              ELSE w
    ELSE w

\* ---------------------------------------------------------------- state

VARIABLES
    ids,        \* moddle.ids: claimed identifier -> the element that owns it
    decisions,  \* each Decision's extensionElements
    canvas,     \* the shapes added to the canvas, in order
    fired,      \* the notifications fired on the event bus, in order
    lastEvent,  \* the event delivered last
    pre,        \* the world the last handler started from, and the event before
    nEvents,    \* how many events were delivered
    outcome     \* how the last handler ran: what it threw, the calls it made on
                \* the registry, the statements of createDecisionDi it ran

vars == << ids, decisions, canvas, fired, lastEvent, pre, nEvents, outcome >>

\* a handler that has thrown nothing, called nothing and run no statement
NoOutcome == [thrown |-> NULL, calls |-> << >>, steps |-> << >>]

\* the world a handler starts from
World ==
    [ ids |-> ids, decisions |-> decisions, canvas |-> canvas, fired |-> fired,
      thrown |-> NULL, calls |-> << >>, steps |-> << >>, listener |-> "none" ]

Init ==
    /\ ids = EmptySeed
    /\ decisions \in { f \in [Decisions -> UNION { DecisionStates(d) : d \in Decisions }] :
                         \A d \in Decisions : f[d] \in DecisionStates(d) }
    /\ canvas = << >>
    /\ fired = << >>
    /\ lastEvent = [kind |-> "none"]
    /\ pre = [world |-> World, event |-> [kind |-> "none"]]
    /\ nEvents = 0
    /\ outcome = NoOutcome

\* one delivered event: the handler takes the world from World to w
Deliver(event, w) ==
    /\ nEvents < MaxEvents
    /\ nEvents' = nEvents + 1
    /\ lastEvent' = event
    /\ pre' = [world |-> World, event |-> lastEvent]
    /\ ids' = w.ids
    /\ decisions' = w.decisions
    /\ canvas' = w.canvas
    /\ fired' = w.fired
    /\ outcome' = [thrown |-> w.thrown, calls |-> w.calls, steps |-> w.steps]

\* the importer emits import.parse.complete
ParseComplete ==
    \E error \in {NULL, "Error"}, elementsById \in ElementIndexes :
        LET event == [ kind |-> "import.parse.complete", error |-> error,
                       definitions |-> "definitions",
                       context |-> [ defined |-> TRUE, indexed |-> TRUE,
                                     elementsById |-> elementsById ] ]
        IN  Deliver(event, ParseCompleteHandler(World, event))

\* the table is destroyed
TableDestroy ==
    Deliver([kind |-> "table.destroy"], TableDestroyHandler(World))

\* the view is switched
ViewSwitch ==
    \E decision \in Decisions, fromTable \in BOOLEAN, geometry \in FactoryGeometry :
        LET context == [ kind |-> "view.switch", decision |-> decision,
                         fromTable |-> fromTable, geometry |-> geometry,
                         listener |-> "none" ]
        IN  Deliver(context, ViewSwitchHandler(World, context, geometry))

\* a collaborator claims an identifier on moddle.ids
CollaboratorClaim ==
    \E id \in Identifiers, element \in Elements :
        Deliver([kind |-> "ids.claim", id |-> id, element |-> element],
                [World EXCEPT !.ids = IdsClaim(ids, id, element)])

Next == ParseComplete \/ TableDestroy \/ ViewSwitch \/ CollaboratorClaim

Spec == Init /\ [][Next]_vars

\* ------------------------------------------- events that lack a field

\* an error-free import.parse.complete without definitions, without
\* context.elementsById or without context
ParseCompleteAbsent ==
    \/ \E elementsById \in ElementIndexes :
           LET event == [ kind |-> "import.parse.complete", error |-> NULL,
                          definitions |-> NULL,
                          context |-> [ defined |-> TRUE, indexed |-> TRUE,
                                        elementsById |-> elementsById ] ]
           IN  Deliver(event, ParseCompleteHandler(World, event))
    \/ \E definitions \in {"definitions", NULL}, defined \in BOOLEAN :
           LET event == [ kind |-> "import.parse.complete", error |-> NULL,
                          definitions |-> definitions,
                          context |-> [ defined |-> defined, indexed |-> FALSE,
                                        elementsById |-> EmptySeed ] ]
           IN  Deliver(event, ParseCompleteHandler(World, event))

\* a view.switch without decision
ViewSwitchAbsent ==
    \E fromTable \in BOOLEAN :
        LET geometry == CHOOSE g \in FactoryGeometry : TRUE
            context == [ kind |-> "view.switch", decision |-> NULL,
                         fromTable |-> fromTable, geometry |-> geometry,
                         listener |-> "none" ]
        IN  Deliver(context, ViewSwitchHandler(World, context, geometry))

NextAbsent == Next \/ ParseCompleteAbsent \/ ViewSwitchAbsent

SpecAbsent == Init /\ [][NextAbsent]_vars

\* ------------------------------------------------- re-entrant delivery

\* the events during which a listener may emit a nested view.switch: the
\* canvas's insertion event and the added-element notification
Hooks == {"shape.added", "drdElement.added"}

\* the view is switched while a listener of `hook` is registered that
\* synchronously emits view.switch from the table for the same Decision
ViewSwitchReentrant ==
    \E decision \in Decisions, fromTable \in BOOLEAN,
       geometry \in FactoryGeometry, hook \in Hooks :
        LET context == [ kind |-> "view.switch", decision |-> decision,
                         fromTable |-> fromTable, geometry |-> geometry,
                         listener |-> hook ]
        IN  Deliver(context,
                    ViewSwitchHandler([World EXCEPT !.listener = hook], context, geometry))

NextReentrant == Next \/ ViewSwitchReentrant

SpecReentrant == Init /\ [][NextReentrant]_vars

\* ------------------------------------------------------------ properties

\* the claimed set of a registry
Claimed(seed) == DOMAIN seed

\* the last event is a parse-complete without an error
ParsedOk == lastEvent.kind = "import.parse.complete" /\ lastEvent.error = NULL

\* the last event is a parse-complete with its error field set
ParseFailed == lastEvent.kind = "import.parse.complete" /\ lastEvent.error # NULL

\* the last event is a view switch
Switched == lastEvent.kind = "view.switch"

\* the container decision d owned before the last event
ExtBefore(d) == pre.world.decisions[d].extensionElements

\* the positions in a canvas of the shapes whose business object is d
ShapesOf(c, d) == { i \in 1..Len(c) : c[i].businessObject = d }

\* the positions in a notification log of the notifications about d
FiredFor(f, d) == { i \in 1..Len(f) : f[i].element.businessObject = d }

\* C1: after a parse-complete event without an error the claimed set of the
\* registry is exactly the key set of the event's context.elementsById,
\* whatever the registry held before.
C1_ClaimedIsKeySet ==
    ParsedOk => Claimed(ids) = DOMAIN lastEvent.context.elementsById

\* C1 witness: a successful parse of a document with the single key "b"
\* over a registry that held "a" and "b"
C1_Witness ==
    /\ ParsedOk
    /\ Claimed(pre.world.ids) = {"a", "b"}
    /\ DOMAIN lastEvent.context.elementsById = {"b"}
    /\ Claimed(ids) = {"b"}

\* C2: a parse-complete event whose error field is set leaves the registry
\* (claimed identifiers and their owners) as it was.
C2_FailedParseKeepsRegistry ==
    ParseFailed => ids = pre.world.ids

\* C2 witness: {a, b} claimed, a failed parse whose context indexes other
\* elements, and {a, b} still claimed by the same owners
C2_Witness ==
    /\ ParseFailed
    /\ Claimed(pre.world.ids) = {"a", "b"}
    /\ lastEvent.context.elementsById # pre.world.ids
    /\ ids = pre.world.ids

\* C3: a document-destroy event empties the registry, and an empty registry
\* stays empty until a successful parse-complete or an explicit claim.
C3_DestroyEmptiesRegistry ==
    /\ lastEvent.kind = "table.destroy" => Claimed(ids) = {}
    /\ (Claimed(pre.world.ids) = {} /\ Claimed(ids) # {})
          => (ParsedOk \/ lastEvent.kind = "ids.claim")

\* C3 witness: a destroy event delivered while identifiers were claimed
C3_Witness ==
    /\ lastEvent.kind = "table.destroy"
    /\ Claimed(pre.world.ids) = {"a", "b"}
    /\ Claimed(ids) = {}

C5_AlreadySynchronizedNoOp ==
    (Switched /\ lastEvent.fromTable /\ ExtBefore(lastEvent.decision).defined)
        => World = pre.world

\* C5 witness: such a view switch on a Decision whose container came with
\* the document
C5_Witness ==
    /\ Switched /\ lastEvent.fromTable
    /\ ExtBefore(lastEvent.decision).defined
    /\ pre.world.canvas = << >>
    /\ World = pre.world

\* C6: a view switch with fromTable false changes nothing, whether or not
\* the Decision owns an extension-elements container.
C6_NotFromTableNoOp ==
    (Switched /\ ~ lastEvent.fromTable) => World = pre.world

\* C6 witness: a view switch with fromTable false on a Decision without a
\* container
C6_Witness ==
    /\ Switched /\ ~ lastEvent.fromTable
    /\ ~ ExtBefore(lastEvent.decision).defined
    /\ World = pre.world

Materialized == Switched /\ Len(fired) = Len(pre.world.fired) + 1

MaterializationSteps ==
    << "extensionElements.$parent", "bounds.$parent", "values.push",
       "canvas.addShape", "eventBus.fire" >>

\* the names of the statements the last handler ran
StepNames == [i \in 1..Len(outcome.steps) |-> outcome.steps[i].step]

\* the last event entered the materialization path
EnteredMaterialization ==
    /\ Switched /\ lastEvent.fromTable
    /\ lastEvent.decision # NULL
    /\ ~ ExtBefore(lastEvent.decision).defined

FullyFormed(e, d) ==
    /\ e.ext.defined
    /\ e.ext.parent = d
    /\ Len(e.ext.values) = Len(ExtBefore(d).values) + 1
    /\ e.ext.values[Len(e.ext.values)].parent = ExtRef(d)

LacksDefinitions == ParsedOk /\ lastEvent.definitions = NULL

\* the last event is an error-free parse-complete with definitions whose
\* context has no elementsById
LacksElementsById ==
    /\ ParsedOk /\ lastEvent.definitions # NULL
    /\ lastEvent.context.defined /\ ~ lastEvent.context.indexed

\* the last event is an error-free parse-complete with definitions and
\* without context
LacksContext ==
    ParsedOk /\ lastEvent.definitions # NULL /\ ~ lastEvent.context.defined

\* the last event is a view switch without decision
LacksDecision == Switched /\ lastEvent.decision = NULL

\* the last handler changed nothing but, at most, the registry
OnlyRegistryChanged ==
    /\ decisions = pre.world.decisions
    /\ canvas = pre.world.canvas
    /\ fired = pre.world.fired

\* C13 as stated: a successful parse-complete event lacking definitions or
\* context.elementsById, and a view-switch event lacking decision, change
\* no state and raise no error.
C13_AbsentFieldsNoOp ==
    (LacksDefinitions \/ LacksElementsById \/ LacksContext \/ LacksDecision)
        => (World = pre.world /\ outcome.thrown = NULL)

\* C13 amended: a view switch lacking decision changes nothing and raises
\* nothing when fromTable is false, and raises a TypeError, changing
\* nothing, when fromTable is true; a successful parse-complete lacking
\* definitions raises a TypeError and changes nothing; one lacking
\* context.elementsById raises nothing and empties the registry; one lacking
\* context empties the registry and raises a TypeError.
C13_AbsentFields ==
    /\ (LacksDecision /\ ~ lastEvent.fromTable)
          => (World = pre.world /\ outcome.thrown = NULL)
    /\ (LacksDecision /\ lastEvent.fromTable)
          => (World = pre.world /\ outcome.thrown = "TypeError")
    /\ LacksDefinitions
          => (World = pre.world /\ outcome.thrown = "TypeError")
    /\ LacksElementsById
          => (ids = EmptySeed /\ OnlyRegistryChanged /\ outcome.thrown = NULL)
    /\ LacksContext
          => (ids = EmptySeed /\ OnlyRegistryChanged /\ outcome.thrown = "TypeError")

\* C13 witness: an error-free parse-complete without context.elementsById
\* delivered while {a, b} were claimed, which empties the registry
C13_Witness ==
    /\ LacksElementsById
    /\ Claimed(pre.world.ids) = {"a", "b"}
    /\ Claimed(ids) = {}
    /\ outcome.thrown = NULL

\* decision d owns DI: a container parented under it that holds a bounds
\* record parented under the container
OwnsDi(d) ==
    LET ext == decisions[d].extensionElements
    IN  /\ ext.defined
        /\ ext.parent = d
        /\ \E i \in 1..Len(ext.values) : ext.values[i].parent = ExtRef(d)

ClaimCalls == SubSeq(outcome.calls, 2, Len(outcome.calls))

\* C15: one re-collection pass calls clear first and then claim exactly once
\* for each key of the element index, never for an identifier that is
\* claimed when the call is made.
C15_ClaimOncePerKey ==
    ParsedOk =>
        LET keys == DOMAIN lastEvent.context.elementsById
        IN  /\ Len(outcome.calls) = 1 + Cardinality(keys)
            /\ outcome.calls[1] = ClearCall
            /\ \A i \in 1..Len(ClaimCalls) :
                   /\ ClaimCalls[i].op = "claim"
                   /\ ClaimCalls[i].id \in keys
                   /\ ~ ClaimCalls[i].claimed
            /\ \A k \in keys :
                   Cardinality({ i \in 1..Len(ClaimCalls) : ClaimCalls[i].id = k }) = 1

\* C15 witness: a pass over the index {a, b} while a and b were claimed for
\* the previous document
C15_Witness ==
    /\ ParsedOk
    /\ Claimed(pre.world.ids) = {"a", "b"}
    /\ DOMAIN lastEvent.context.elementsById = {"a", "b"}
    /\ Len(outcome.calls) = 3
    /\ ~ outcome.calls[2].claimed /\ ~ outcome.calls[3].claimed

\* C16: parse-complete and document-destroy events never change the canvas's
\* shapes or a Decision's extension elements (nor fire a notification), and
\* a view-switch event never changes the registry.
C16_EventFrames ==
    /\ lastEvent.kind \in {"import.parse.complete", "table.destroy"}
          => /\ canvas = pre.world.canvas
             /\ decisions = pre.world.decisions
             /\ fired = pre.world.fired
    /\ Switched => ids = pre.world.ids

\* C16 witness: a destroy event that empties a registry and leaves the shape
\* and the DI an earlier view switch created
C16_Witness ==
    /\ lastEvent.kind = "table.destroy"
    /\ Claimed(pre.world.ids) # {}
    /\ Claimed(ids) = {}
    /\ Len(canvas) = 1
    /\ OwnsDi(canvas[1].businessObject)

\* the last event materialized its Decision while a listener emitted a
\* nested view switch for it
ReenteredMaterialization == EnteredMaterialization /\ lastEvent.listener \in Hooks

=============================================================================
